---------------------------- MODULE Spec2Model ----------------------------
(***************************************************************************)
(* Model of checkfiles.py (hg-checkfiles): the CheckFiles object, its      *)
(* relevance filter, the full-content and diff-restricted check, the       *)
(* fixer, and the hook / command entry points.                             *)
(*                                                                         *)
(* Byte strings are sequences of one-character strings.  File names and    *)
(* suffixes are byte strings too, so that str.endswith is computed.        *)
(***************************************************************************)
EXTENDS Integers, Sequences, FiniteSets, TLC

(***************************************************************************)
(* Bounds of the model.                                                    *)
(***************************************************************************)
MaxTab == 3        \* tab sizes 1..MaxTab are explored
MaxLen == 4        \* longest file content (bytes) in the line-level specifications
MaxToks == 4       \* longest diff token stream in the diff specification

(***************************************************************************)
(* Bytes.                                                                  *)
(***************************************************************************)
SP == " "
TAB == "\t"
LF == "\n"
CR == "\r"
NUL == "NUL"
X == "x"

\* None, and a failed ctx[file] / fctx.data(); tuples, like the byte strings they
\* stand beside, yet no byte string (their element is not one character)
Null == <<"None">>
Missing == <<"LookupError">>

(***************************************************************************)
(* Python 2 str methods, as the code uses them.                            *)
(***************************************************************************)
Range(s) == {s[i] : i \in DOMAIN s}

\* the bytes str.isspace / str.rstrip treat as whitespace (those that occur here)
IsWs(c) == c \in {SP, TAB, LF, CR}

\* str.isspace(): non-empty and every byte is whitespace
isspace(s) == Len(s) > 0 /\ \A i \in DOMAIN s : IsWs(s[i])

\* str.endswith(e)
endswith(s, e) ==
    /\ Len(e) <= Len(s)
    /\ SubSeq(s, Len(s) - Len(e) + 1, Len(s)) = e

\* str.startswith(e)
startswith(s, e) == Len(e) <= Len(s) /\ SubSeq(s, 1, Len(e)) = e

\* str.rstrip(): drop the trailing whitespace run
RECURSIVE rstrip(_)
rstrip(s) ==
    IF Len(s) = 0 THEN s
    ELSE IF IsWs(s[Len(s)]) THEN rstrip(SubSeq(s, 1, Len(s) - 1))
    ELSE s

Spaces(n) == [i \in 1..n |-> SP]

\* str.expandtabs(ts): a tab advances to the next multiple of ts (column based);
\* col is the column reached so far
RECURSIVE expandfrom(_, _, _)
expandfrom(s, ts, col) ==
    IF Len(s) = 0 THEN << >>
    ELSE IF s[1] = TAB
         THEN LET n == ts - (col % ts)
              IN  Spaces(n) \o expandfrom(Tail(s), ts, col + n)
         ELSE IF s[1] \in {LF, CR}
              THEN <<s[1]>> \o expandfrom(Tail(s), ts, 0)
              ELSE <<s[1]>> \o expandfrom(Tail(s), ts, col + 1)

expandtabs(s, ts) == expandfrom(s, ts, 0)

\* str.replace(old, new): leftmost non-overlapping occurrences (old non-empty)
RECURSIVE replace(_, _, _)
replace(s, old, new) ==
    IF Len(s) = 0 THEN << >>
    ELSE IF startswith(s, old)
         THEN new \o replace(SubSeq(s, Len(old) + 1, Len(s)), old, new)
         ELSE <<s[1]>> \o replace(Tail(s), old, new)

\* str.splitlines(): split at LF, CR LF and CR, terminators dropped, no final
\* empty line; cur is the line being collected
RECURSIVE splitfrom(_, _)
splitfrom(s, cur) ==
    IF Len(s) = 0 THEN (IF Len(cur) = 0 THEN << >> ELSE <<cur>>)
    ELSE IF s[1] = LF THEN <<cur>> \o splitfrom(Tail(s), << >>)
    ELSE IF s[1] = CR
         THEN IF Len(s) >= 2 /\ s[2] = LF
              THEN <<cur>> \o splitfrom(Tail(Tail(s)), << >>)
              ELSE <<cur>> \o splitfrom(Tail(s), << >>)
    ELSE splitfrom(Tail(s), Append(cur, s[1]))

splitlines(s) == splitfrom(s, << >>)

\* '\n'.join(lines)
RECURSIVE join(_)
join(ls) ==
    IF Len(ls) = 0 THEN << >>
    ELSE IF Len(ls) = 1 THEN ls[1]
    ELSE ls[1] \o <<LF>> \o join(Tail(ls))

\* all byte strings over alphabet A of length at most n
RECURSIVE Strings(_, _)
Strings(A, n) ==
    IF n = 0 THEN {<< >>}
    ELSE LET S == Strings(A, n - 1)
         IN  S \cup {Append(s, c) : s \in {t \in S : Len(t) = n - 1}, c \in A}


(***************************************************************************)
(* Names and suffixes that occur in the model.                             *)
(***************************************************************************)
Ext_c == <<".", "c">>
Ext_ui == <<".", "u", "i">>
Ext_sln == <<".", "s", "l", "n">>
Ext_suo == <<".", "s", "u", "o">>
Ext_vcproj == <<".", "v", "c", "p", "r", "o", "j">>
Ext_csproj == <<".", "c", "s", "p", "r", "o", "j">>
Name_a_c == <<"a", ".", "c">>
Name_b_c == <<"b", ".", "c">>
Name_m_ui == <<"m", ".", "u", "i">>
Name_r_h == <<"r", ".", "h">>

\* ui.configlist('checkfiles', 'checked_exts', default='""'): the quoted empty
\* string parses to the list holding the empty suffix
DefaultCheckedExts == << << >> >>
\* ui.configlist('checkfiles', 'ignored_exts', default='.sln .suo .vcproj .csproj .ui')
DefaultIgnoredExts == <<Ext_sln, Ext_suo, Ext_vcproj, Ext_csproj, Ext_ui>>
\* int(ui.config('checkfiles', 'tab_size', default='4')) and the commands' -t default
DefaultTabSize == 4

(***************************************************************************)
(* CheckFiles.is_relevant.  cf is the CheckFiles object, data the content  *)
(* accessor of its ctx: data[file] is the file's bytes, or Missing when    *)
(* ctx[file] / fctx.data() raises.                                         *)
(***************************************************************************)
Fetch(data, file) == IF file \in DOMAIN data THEN data[file] ELSE Missing

is_relevant(cf, data, file) ==
    /\ ~(file \in Range(cf.ignored_files))
    /\ ~(\E e \in Range(cf.ignored_exts) : endswith(file, e))
    /\ \E e \in Range(cf.checked_exts) : endswith(file, e)
    /\ Fetch(data, file) # Missing
    /\ ~(NUL \in Range(Fetch(data, file)))

\* filter(self.is_relevant, files)
RelevantFiles(cf, data, files) ==
    SelectSeq(files, LAMBDA f : is_relevant(cf, data, f))

(***************************************************************************)
(* Indentation detection.                                                  *)
(***************************************************************************)
\* length of the longest prefix of tabs and spaces
RECURSIVE LeadRun(_)
LeadRun(line) ==
    IF Len(line) > 0 /\ line[1] \in {SP, TAB} THEN 1 + LeadRun(Tail(line)) ELSE 0

\* re.match(r'^\t*( \t*)+[^ \t]', line): the matched text (the leading run, which
\* holds a space, and the byte after it), or Null
match_spaces_before_text(line) ==
    LET k == LeadRun(line)
    IN  IF SP \in Range(SubSeq(line, 1, k)) /\ Len(line) > k
        THEN SubSeq(line, 1, k + 1)
        ELSE Null

is_ws_before_text(cf, line) ==
    IF cf.use_spaces
    THEN TAB \in Range(line)
    ELSE match_spaces_before_text(line) # Null

(***************************************************************************)
(* check()'s State object.                                                 *)
(***************************************************************************)
NewState ==
    [ws_begin |-> FALSE, ws_end |-> FALSE, all_ws |-> FALSE,
     filecount |-> 0, probcount |-> 0]

found_all_ws(st) == [st EXCEPT !.all_ws = TRUE, !.probcount = @ + 1]
found_ws_end(st) == [st EXCEPT !.ws_end = TRUE, !.probcount = @ + 1]
found_ws_begin(st) == [st EXCEPT !.ws_begin = TRUE, !.probcount = @ + 1]

HasFlags(st) == st.ws_begin \/ st.ws_end \/ st.all_ws

Flags(st) ==
    (IF st.ws_begin THEN {"whitespace_begin"} ELSE {})
    \cup (IF st.ws_end THEN {"whitespace_end"} ELSE {})
    \cup (IF st.all_ws THEN {"all_whitespace"} ELSE {})

endfile_noreset(st, f) ==
    IF f = Null THEN st
    ELSE IF HasFlags(st) THEN [st EXCEPT !.filecount = @ + 1]
    ELSE st

endfile(st, f) ==
    IF f = Null THEN st
    ELSE IF HasFlags(st)
         THEN [st EXCEPT !.filecount = @ + 1, !.ws_begin = FALSE,
                         !.ws_end = FALSE, !.all_ws = FALSE]
         ELSE st

\* one entry of the ui output: what was said, about which file, where (a line
\* number or a hunk), the kinds of a file summary, and the position in the
\* diff stream (0 outside diff mode)
Msg(kind, f, where, flags, at) ==
    [kind |-> kind, file |-> f, where |-> where, flags |-> flags, at |-> at]

\* the ui.status / ui.note call of endfile
endfile_out(st, f, at) ==
    IF f = Null THEN << >>
    ELSE IF HasFlags(st) THEN <<Msg("summary", f, 0, Flags(st), at)>>
    ELSE <<Msg("ok", f, 0, {}, at)>>

(***************************************************************************)
(* detect_ws_before_text, and the loop body of the full-content check      *)
(* (lines 217-231) for one line.                                           *)
(***************************************************************************)
detect_ws_before_text(cf, st, line) ==
    IF cf.use_spaces
    THEN (IF is_ws_before_text(cf, line) THEN found_ws_begin(st) ELSE st)
    ELSE (IF match_spaces_before_text(line) # Null THEN found_ws_begin(st) ELSE st)

detect_out(cf, f, num, line) ==
    IF cf.use_spaces
    THEN (IF is_ws_before_text(cf, line)
          THEN <<Msg("tab character(s)", f, num, {}, 0)>> ELSE << >>)
    ELSE (IF match_spaces_before_text(line) # Null
          THEN <<Msg("space(s) before text", f, num, {}, 0)>> ELSE << >>)

EndsWithSpaceOrTab(line) == Len(line) > 0 /\ line[Len(line)] \in {SP, TAB}

\* the line handed to detect_ws_before_text: the trailing-whitespace branch
\* rebinds line to its tab-expanded form
LineForDetect(cf, line) ==
    IF ~isspace(line) /\ EndsWithSpaceOrTab(line)
    THEN expandtabs(line, cf.tab_size)
    ELSE line

scan_line(cf, st, line) ==
    LET st1 == IF isspace(line) THEN found_all_ws(st)
               ELSE IF EndsWithSpaceOrTab(line) THEN found_ws_end(st)
               ELSE st
    IN  detect_ws_before_text(cf, st1, LineForDetect(cf, line))

scan_line_out(cf, f, num, line) ==
    (IF isspace(line) THEN <<Msg("all whitespace", f, num, {}, 0)>>
     ELSE IF EndsWithSpaceOrTab(line)
          THEN <<Msg("trailing whitespace", f, num, {}, 0)>>
          ELSE << >>)
    \o detect_out(cf, f, num, LineForDetect(cf, line))

(***************************************************************************)
(* fixup: the content written for one file (lines 247-275), or the content *)
(* left as it is when no line has a problem.                               *)
(***************************************************************************)
NeedsFix(cf, lines) ==
    \E i \in DOMAIN lines :
        \/ isspace(lines[i])
        \/ is_ws_before_text(cf, lines[i])
        \/ EndsWithSpaceOrTab(lines[i])

\* one line of fixline()
fixline_tabs(cf, line) ==
    LET m == match_spaces_before_text(line)
    IN  IF m # Null
        THEN LET ws == SubSeq(m, 1, Len(m) - 1)
                 text == SubSeq(line, Len(ws) + 1, Len(line))
             IN  replace(expandtabs(ws, cf.tab_size), Spaces(cf.tab_size), <<TAB>>)
                 \o rstrip(text)
        ELSE rstrip(line)

\* str.rstrip(' '): spaces only
RECURSIVE rstrip_spaces(_)
rstrip_spaces(s) ==
    IF Len(s) = 0 THEN s
    ELSE IF s[Len(s)] = SP THEN rstrip_spaces(SubSeq(s, 1, Len(s) - 1))
    ELSE s

fixline_stripspaces(cf, line) ==
    IF cf.use_spaces
    THEN expandtabs(rstrip_spaces(line), cf.tab_size)
    ELSE fixline_tabs(cf, line)

fixline(cf, line) ==
    IF cf.use_spaces
    THEN expandtabs(rstrip(line), cf.tab_size)
    ELSE fixline_tabs(cf, line)

nl_at_eof(data) == endswith(data, <<LF>>)

FixedData(cf, data) ==
    LET lines == splitlines(data)
    IN  join([i \in DOMAIN lines |-> fixline(cf, lines[i])])
        \o (IF nl_at_eof(data) THEN <<LF>> ELSE << >>)

\* the file's bytes after the loop body of fixup has run for it
fixup_data(cf, data) ==
    IF NeedsFix(cf, splitlines(data)) THEN FixedData(cf, data) ELSE data

(***************************************************************************)
(* The labelled diff of patch.diffui: a sequence of (chunk, label) tokens. *)
(***************************************************************************)
Tok(chunk, label) == [chunk |-> chunk, label |-> label]

L_file_a == "diff.file_a"
L_file_b == "diff.file_b"
L_hunk == "diff.hunk"
L_inserted == "diff.inserted"
L_deleted == "diff.deleted"
L_trailing == "diff.trailingwhitespace"
L_none == ""
NoLabel == "None"

HeaderPrefix == <<"+", "+", "+", " ", "b", "/">>
HeaderDate == <<TAB, "D">>
Header(f) == HeaderPrefix \o f \o HeaderDate
DevNull == <<"+", "+", "+", " ", "/", "d", "e", "v", "/", "n", "u", "l", "l">>
HunkText == <<"@", "@">>

\* re.sub(r'^[+][+][+] b/(.+)\t.+$', r'\1', chunk): the path between the prefix and
\* the last tab that still has text after it; '.' matches no line feed and '$'
\* matches at the end or before one final line feed, which the substitution
\* leaves in place; the chunk itself when the pattern does not match
HeaderPath(chunk) ==
    LET n == Len(chunk)
        nl == n > 0 /\ chunk[n] = LF
        m == IF nl THEN n - 1 ELSE n
        tabs == {p \in 8..(m - 1) : chunk[p] = TAB}
    IN  IF startswith(chunk, HeaderPrefix) /\ tabs # {}
           /\ \A q \in 1..m : chunk[q] # LF
        THEN SubSeq(chunk, 7, (CHOOSE p \in tabs : \A q \in tabs : q <= p) - 1)
             \o (IF nl THEN <<LF>> ELSE <<>>)
        ELSE chunk

\* Python truth of the local 'file': neither None nor the empty string
Truthy(f) == f # Null /\ Len(f) > 0

\* the loop body of the diff-restricted check (lines 187-208) applied to one
\* token: the new [state, file, hunk, lastlabel] and the ui output
diff_step_nolastlabel(cf, data, st, f, h, last, t, at) ==
    IF t.label = L_file_b
    THEN LET g == HeaderPath(t.chunk)
         IN  [state |-> endfile(st, f),
              file |-> IF is_relevant(cf, data, g) THEN g ELSE Null,
              hunk |-> h, lastlabel |-> t.label,
              out |-> endfile_out(st, f, at)]
    ELSE IF t.label = L_hunk
    THEN [state |-> st, file |-> f, hunk |-> t.chunk, lastlabel |-> t.label,
          out |-> << >>]
    ELSE IF Truthy(f) /\ t.label = L_trailing /\ t.chunk # <<CR>>
    THEN [state |-> found_ws_end(st), file |-> f, hunk |-> h,
          lastlabel |-> t.label,
          out |-> <<Msg("trailing whitespace", f, h, {}, at)>>]
    ELSE IF Truthy(f) /\ t.label = L_inserted
            /\ is_ws_before_text(cf, Tail(t.chunk))
    THEN [state |-> found_ws_begin(st), file |-> f, hunk |-> h,
          lastlabel |-> t.label,
          out |-> <<Msg(IF cf.use_spaces THEN "tab character(s)"
                        ELSE "space(s) before text", f, h, {}, at)>>]
    ELSE [state |-> st, file |-> f, hunk |-> h, lastlabel |-> t.label,
          out |-> << >>]

diff_step_keepfile(cf, data, st, f, h, last, t, at) ==
    IF t.label = L_file_b
    THEN LET g == HeaderPath(t.chunk)
         IN  [state |-> endfile(st, f),
              file |-> IF is_relevant(cf, data, g) THEN g ELSE f,
              hunk |-> h, lastlabel |-> t.label,
              out |-> endfile_out(st, f, at)]
    ELSE IF t.label = L_hunk
    THEN [state |-> st, file |-> f, hunk |-> t.chunk, lastlabel |-> t.label,
          out |-> << >>]
    ELSE IF Truthy(f) /\ t.label = L_trailing /\ last = L_inserted
            /\ t.chunk # <<CR>>
    THEN [state |-> found_ws_end(st), file |-> f, hunk |-> h,
          lastlabel |-> t.label,
          out |-> <<Msg("trailing whitespace", f, h, {}, at)>>]
    ELSE IF Truthy(f) /\ t.label = L_inserted
            /\ is_ws_before_text(cf, Tail(t.chunk))
    THEN [state |-> found_ws_begin(st), file |-> f, hunk |-> h,
          lastlabel |-> t.label,
          out |-> <<Msg(IF cf.use_spaces THEN "tab character(s)"
                        ELSE "space(s) before text", f, h, {}, at)>>]
    ELSE [state |-> st, file |-> f, hunk |-> h, lastlabel |-> t.label,
          out |-> << >>]

diff_step(cf, data, st, f, h, last, t, at) ==
    IF t.label = L_file_b
    THEN LET g == HeaderPath(t.chunk)
         IN  [state |-> endfile(st, f),
              file |-> IF is_relevant(cf, data, g) THEN g ELSE Null,
              hunk |-> h, lastlabel |-> t.label,
              out |-> endfile_out(st, f, at)]
    ELSE IF t.label = L_hunk
    THEN [state |-> st, file |-> f, hunk |-> t.chunk, lastlabel |-> t.label,
          out |-> << >>]
    ELSE IF Truthy(f) /\ t.label = L_trailing /\ last = L_inserted
            /\ t.chunk # <<CR>>
    THEN [state |-> found_ws_end(st), file |-> f, hunk |-> h,
          lastlabel |-> t.label,
          out |-> <<Msg("trailing whitespace", f, h, {}, at)>>]
    ELSE IF Truthy(f) /\ t.label = L_inserted
            /\ is_ws_before_text(cf, Tail(t.chunk))
    THEN [state |-> found_ws_begin(st), file |-> f, hunk |-> h,
          lastlabel |-> t.label,
          out |-> <<Msg(IF cf.use_spaces THEN "tab character(s)"
                        ELSE "space(s) before text", f, h, {}, at)>>]
    ELSE [state |-> st, file |-> f, hunk |-> h, lastlabel |-> t.label,
          out |-> << >>]

(***************************************************************************)
(* The repository as the engine sees it.                                   *)
(*   wdir[f]  = [status, data, new]: a tracked file of the working         *)
(*              directory, its bytes (Missing once removed) and the        *)
(*              numbers of its lines that the parent revision lacks        *)
(*   parents  = len(ctx.parents())                                         *)
(*   diff     = what patch.diffui yields for (p1, ctx)                     *)
(***************************************************************************)
VARIABLES config, wdir, parents, diff, call, self, pc, state, file, hunk,
          lastlabel, pos, todo, lines, num, out, result

vars == <<config, wdir, parents, diff, call, self, pc, state, file, hunk,
          lastlabel, pos, todo, lines, num, out, result>>

OrderedNames == <<Name_a_c, Name_b_c, Name_m_ui, Name_r_h>>

CtxData(w) == [f \in DOMAIN w |-> w[f].data]

\* repo.status() lists, each in name order
FilesWithStatus(w, sts) ==
    SelectSeq(OrderedNames, LAMBDA f : f \in DOMAIN w /\ w[f].status \in sts)

\* workingctx.files(): modified + added + removed, sorted
CtxFiles(w) == FilesWithStatus(w, {"modified", "added", "removed"})

\* modified + added + clean of repo.status(clean=True)
AllFiles(w) ==
    FilesWithStatus(w, {"modified"}) \o FilesWithStatus(w, {"added"})
    \o FilesWithStatus(w, {"clean"})

\* CheckFiles.__init__: the object, or the exception it raises
KeyError == [raised |-> "KeyError"]

init(cfg, w, opts) ==
    IF ~("all" \in opts.keys) THEN KeyError
    ELSE [raised |-> "",
          files |-> IF opts.all THEN AllFiles(w) ELSE CtxFiles(w),
          checked_exts |-> cfg.checked_exts,
          ignored_exts |-> cfg.ignored_exts,
          ignored_files |-> cfg.ignored_files,
          check_diffs |-> cfg.check_diffs,
          tab_size |-> IF "tabsize" \in opts.keys THEN opts.tabsize
                       ELSE cfg.tab_size,
          use_spaces |-> cfg.use_spaces]

NoSelf == [raised |-> "unconstructed"]

\* opts = {} (the hooks) and the opts the command table passes
NoOpts == [keys |-> {}, all |-> FALSE, tabsize |-> 0]
CmdOpts(all, ts) == [keys |-> {"all", "tabsize"}, all |-> all, tabsize |-> ts]

(***************************************************************************)
(* patch.diffui for the working directory: per changed file the two header *)
(* lines and a hunk header, then each line of the file with its label, a   *)
(* trailing-whitespace token when stripping shortened it, and the newline. *)
(***************************************************************************)
RECURSIVE SplitLF(_, _)
SplitLF(s, cur) ==
    IF Len(s) = 0 THEN (IF Len(cur) = 0 THEN << >> ELSE <<cur>>)
    ELSE IF s[1] = LF THEN <<cur>> \o SplitLF(Tail(s), << >>)
    ELSE SplitLF(Tail(s), Append(cur, s[1]))

LineToks(line, isnew) ==
    LET full == (IF isnew THEN <<"+">> ELSE <<SP>>) \o line
        strip == rstrip(full)
    IN  <<IF isnew THEN Tok(strip, L_inserted) ELSE Tok(full, L_none)>>
        \o (IF full # strip
            THEN <<Tok(SubSeq(full, Len(strip) + 1, Len(full)), L_trailing)>>
            ELSE << >>)
        \o <<Tok(<<LF>>, L_none)>>

RECURSIVE LinesToks(_, _, _)
LinesToks(ls, new, i) ==
    IF i > Len(ls) THEN << >>
    ELSE LineToks(ls[i], i \in new) \o LinesToks(ls, new, i + 1)

FileToks(w, f) ==
    IF w[f].status = "removed"
    THEN <<Tok(<<"-", "-", "-">>, L_file_a), Tok(DevNull, L_file_b),
           Tok(HunkText, L_hunk), Tok(<<"-", X>>, L_deleted)>>
    ELSE <<Tok(<<"-", "-", "-">>, L_file_a), Tok(Header(f), L_file_b),
           Tok(HunkText, L_hunk)>>
         \o LinesToks(SplitLF(w[f].data, << >>), w[f].new, 1)

RECURSIVE FilesToks(_, _)
FilesToks(w, fs) ==
    IF Len(fs) = 0 THEN << >>
    ELSE FileToks(w, fs[1]) \o FilesToks(w, Tail(fs))

diffui(w) == FilesToks(w, CtxFiles(w))

(***************************************************************************)
(* Entry points.  call = [entry, hooktype, opts] is the invocation.        *)
(***************************************************************************)
\* check_cmd: CheckFiles(ui, repo, repo[None], opts), then cf.check()
check_cmd ==
    /\ pc = "start" /\ call.entry = "check_cmd"
    /\ self' = init(config, wdir, call.opts)
    /\ pc' = IF self'.raised = "" THEN "check" ELSE "raised"
    /\ result' = IF self'.raised = "" THEN result ELSE self'.raised
    /\ UNCHANGED <<config, wdir, parents, diff, call, state, file, hunk,
                   lastlabel, pos, todo, lines, num, out>>

\* fixup_cmd: CheckFiles(ui, repo, repo[None], opts), then cf.fixup()
fixup_cmd ==
    /\ pc = "start" /\ call.entry = "fixup_cmd"
    /\ self' = init(config, wdir, call.opts)
    /\ pc' = IF self'.raised = "" THEN "fixup" ELSE "raised"
    /\ result' = IF self'.raised = "" THEN result ELSE self'.raised
    /\ UNCHANGED <<config, wdir, parents, diff, call, state, file, hunk,
                   lastlabel, pos, todo, lines, num, out>>

\* check_hook, hooktype pretxncommit: CheckFiles(ui, repo, repo.changectx(node))
\* with the default opts = {}, then cf.check()
check_hook_commit ==
    /\ pc = "start" /\ call.entry = "check_hook"
    /\ call.hooktype = "pretxncommit"
    /\ self' = init(config, wdir, NoOpts)
    /\ pc' = IF self'.raised = "" THEN "check" ELSE "raised"
    /\ result' = IF self'.raised = "" THEN result ELSE self'.raised
    /\ UNCHANGED <<config, wdir, parents, diff, call, state, file, hunk,
                   lastlabel, pos, todo, lines, num, out>>

\* check_hook, hooktype pretxnchangegroup: CheckFiles(ui, repo, None) with the
\* default opts = {}; were opts['all'] there, None.files() would raise next
check_hook_changegroup ==
    /\ pc = "start" /\ call.entry = "check_hook"
    /\ call.hooktype = "pretxnchangegroup"
    /\ self' = init(config, wdir, NoOpts)
    /\ pc' = "raised"
    /\ result' = IF self'.raised = "" THEN "AttributeError" ELSE self'.raised
    /\ UNCHANGED <<config, wdir, parents, diff, call, state, file, hunk,
                   lastlabel, pos, todo, lines, num, out>>

\* check_hook installed as any other hook type: util.Abort
check_hook_unsupported ==
    /\ pc = "start" /\ call.entry = "check_hook"
    /\ call.hooktype \notin {"pretxncommit", "pretxnchangegroup"}
    /\ pc' = "raised"
    /\ result' = "Abort"
    /\ UNCHANGED <<config, wdir, parents, diff, call, self, state, file, hunk,
                   lastlabel, pos, todo, lines, num, out>>

\* fixup_hook: CheckFiles(ui, repo, repo[None]) with the default opts = {}, then
\* cf.fixup() and return False
fixup_hook ==
    /\ pc = "start" /\ call.entry = "fixup_hook"
    /\ self' = init(config, wdir, NoOpts)
    /\ pc' = IF self'.raised = "" THEN "fixup" ELSE "raised"
    /\ result' = IF self'.raised = "" THEN result ELSE self'.raised
    /\ UNCHANGED <<config, wdir, parents, diff, call, state, file, hunk,
                   lastlabel, pos, todo, lines, num, out>>

(***************************************************************************)
(* CheckFiles.check.                                                       *)
(***************************************************************************)
\* len(self.ctx.parents()) == 1
ScansDiff_anyparent(n) == n >= 1

ScansDiff(n) == n = 1

\* check_diffs with one parent: enter the loop over patch.diffui
check_diff_begin ==
    /\ pc = "check" /\ self.check_diffs /\ ScansDiff(parents)
    /\ state' = NewState
    /\ file' = Null /\ hunk' = Null /\ lastlabel' = NoLabel /\ pos' = 0
    /\ pc' = "diff"
    /\ UNCHANGED <<config, wdir, parents, diff, call, self, todo, lines, num,
                   out, result>>

\* check_diffs with no parent or several: 'skipping merge changeset'
check_skip_merge ==
    /\ pc = "check" /\ self.check_diffs /\ ~ScansDiff(parents)
    /\ state' = NewState
    /\ out' = Append(out, Msg("skipping merge changeset", Null, 0, {}, 0))
    /\ pc' = "finish"
    /\ UNCHANGED <<config, wdir, parents, diff, call, self, file, hunk,
                   lastlabel, pos, todo, lines, num, result>>

\* full-content mode: filter(self.is_relevant, self.files)
check_full_begin ==
    /\ pc = "check" /\ ~self.check_diffs
    /\ state' = NewState
    /\ todo' = RelevantFiles(self, CtxData(wdir), self.files)
    /\ pos' = 0
    /\ pc' = "full"
    /\ UNCHANGED <<config, wdir, parents, diff, call, self, file, hunk,
                   lastlabel, lines, num, out, result>>

\* one token of the diff stream (the loop body, lines 187-208)
check_diff_token ==
    /\ pc = "diff" /\ pos < Len(diff)
    /\ LET r == diff_step(self, CtxData(wdir), state, file, hunk, lastlabel,
                          diff[pos + 1], pos + 1)
       IN  /\ state' = r.state
           /\ file' = r.file
           /\ hunk' = r.hunk
           /\ lastlabel' = r.lastlabel
           /\ out' = out \o r.out
    /\ pos' = pos + 1
    /\ UNCHANGED <<config, wdir, parents, diff, call, self, pc, todo, lines,
                   num, result>>

\* end of the diff stream: state.endfile(file)
check_diff_end ==
    /\ pc = "diff" /\ pos = Len(diff)
    /\ state' = endfile(state, file)
    /\ out' = out \o endfile_out(state, file, pos + 1)
    /\ pc' = "finish"
    /\ UNCHANGED <<config, wdir, parents, diff, call, self, file, hunk,
                   lastlabel, pos, todo, lines, num, result>>

\* full-content mode, next relevant file: fctx.data().splitlines()
check_full_file ==
    /\ pc = "full" /\ pos < Len(todo)
    /\ file' = todo[pos + 1]
    /\ lines' = splitlines(wdir[todo[pos + 1]].data)
    /\ num' = 0
    /\ pos' = pos + 1
    /\ pc' = "lines"
    /\ UNCHANGED <<config, wdir, parents, diff, call, self, state, hunk,
                   lastlabel, todo, out, result>>

\* full-content mode, one line (lines 218-231)
check_full_line ==
    /\ pc = "lines" /\ num < Len(lines)
    /\ state' = scan_line(self, state, lines[num + 1])
    /\ out' = out \o scan_line_out(self, file, num + 1, lines[num + 1])
    /\ num' = num + 1
    /\ UNCHANGED <<config, wdir, parents, diff, call, self, pc, file, hunk,
                   lastlabel, pos, todo, lines, result>>

\* full-content mode, after the last line: state.endfile(file)
check_full_endfile ==
    /\ pc = "lines" /\ num = Len(lines)
    /\ state' = endfile(state, file)
    /\ out' = out \o endfile_out(state, file, 0)
    /\ pc' = "full"
    /\ UNCHANGED <<config, wdir, parents, diff, call, self, file, hunk,
                   lastlabel, pos, todo, lines, num, result>>

check_full_end ==
    /\ pc = "full" /\ pos = Len(todo)
    /\ pc' = "finish"
    /\ UNCHANGED <<config, wdir, parents, diff, call, self, state, file, hunk,
                   lastlabel, pos, todo, lines, num, out, result>>

\* return state.filecount > 0, after the warning (lines 235-241)
CheckResult(st) == IF st.filecount > 0 THEN "True" ELSE "False"

check_return ==
    /\ pc = "finish"
    /\ result' = CheckResult(state)
    /\ out' = IF state.filecount > 0
              THEN Append(out, Msg("issues found", Null, state.probcount,
                                   {}, state.filecount))
              ELSE out
    /\ pc' = "done"
    /\ UNCHANGED <<config, wdir, parents, diff, call, self, state, file, hunk,
                   lastlabel, pos, todo, lines, num>>

(***************************************************************************)
(* CheckFiles.fixup.                                                       *)
(***************************************************************************)
fixup_begin ==
    /\ pc = "fixup"
    /\ todo' = RelevantFiles(self, CtxData(wdir), self.files)
    /\ pos' = 0
    /\ pc' = "fix"
    /\ UNCHANGED <<config, wdir, parents, diff, call, self, state, file, hunk,
                   lastlabel, lines, num, out, result>>

\* the loop body for one relevant file: leave it when no line has a problem,
\* else rewrite it
fixup_file ==
    /\ pc = "fix" /\ pos < Len(todo)
    /\ LET f == todo[pos + 1]
           data == wdir[f].data
       IN  /\ file' = f
           /\ IF NeedsFix(self, splitlines(data))
              THEN /\ wdir' = [wdir EXCEPT ![f].data = FixedData(self, data)]
                   /\ out' = Append(out, Msg("fixing", f, 0, {}, 0))
              ELSE /\ wdir' = wdir
                   /\ out' = Append(out, Msg("fix ok", f, 0, {}, 0))
    /\ pos' = pos + 1
    /\ UNCHANGED <<config, parents, diff, call, self, pc, state, hunk,
                   lastlabel, todo, lines, num, result>>

\* fixup_cmd returns 0, fixup_hook False
fixup_return ==
    /\ pc = "fix" /\ pos = Len(todo)
    /\ result' = IF call.entry = "fixup_cmd" THEN "0" ELSE "False"
    /\ pc' = "done"
    /\ UNCHANGED <<config, wdir, parents, diff, call, self, state, file, hunk,
                   lastlabel, pos, todo, lines, num, out>>

(***************************************************************************)
(* Initial states.                                                         *)
(***************************************************************************)
InitRun ==
    /\ self = NoSelf /\ pc = "start" /\ state = NewState
    /\ file = Null /\ hunk = Null /\ lastlabel = NoLabel
    /\ pos = 0 /\ todo = << >> /\ lines = << >> /\ num = 0
    /\ out = << >> /\ result = "None"

\* the [checkfiles] section left at its defaults, but for the two switches
DefaultConfig(us, cd) ==
    [checked_exts |-> DefaultCheckedExts, ignored_exts |-> DefaultIgnoredExts,
     ignored_files |-> << >>, check_diffs |-> cd, tab_size |-> DefaultTabSize,
     use_spaces |-> us]

\* checked_exts = .c .ui / ignored_exts = .ui / ignored_files = b.c
CustomConfig(us, cd) ==
    [checked_exts |-> <<Ext_c, Ext_ui>>, ignored_exts |-> <<Ext_ui>>,
     ignored_files |-> <<Name_b_c>>, check_diffs |-> cd,
     tab_size |-> DefaultTabSize, use_spaces |-> us]

\* checked_exts set to nothing
EmptyCheckedConfig(us, cd) ==
    [checked_exts |-> << >>, ignored_exts |-> DefaultIgnoredExts,
     ignored_files |-> << >>, check_diffs |-> cd, tab_size |-> DefaultTabSize,
     use_spaces |-> us]

Configs(us, cd) ==
    {DefaultConfig(us, cd), CustomConfig(us, cd), EmptyCheckedConfig(us, cd)}

FileState(st, d, new) == [status |-> st, data |-> d, new |-> new]

\* one-line contents: clean, trailing space, tab indent, space indent, blank
Clean == <<X, LF>>
TrailSp == <<X, SP, LF>>
TabIndent == <<TAB, X, LF>>
SpIndent == <<SP, X, LF>>
Blank == <<SP, LF>>
Binary == <<X, NUL, LF>>
TwoTrail == <<X, SP, LF, X, SP, LF>>

Absent == [status |-> "absent", data |-> Missing, new |-> {}]

States_a ==
    {FileState("modified", d, n) :
        d \in {Clean, TrailSp, TabIndent, SpIndent, Blank, TwoTrail}, n \in {{}, {1}}}
    \cup {FileState("clean", d, {}) : d \in {Clean, TrailSp}}
States_b ==
    {Absent, FileState("added", TrailSp, {1}), FileState("modified", Clean, {1}),
     FileState("modified", Binary, {1})}
States_m == {Absent, FileState("modified", TabIndent, {1})}
States_r == {Absent, FileState("removed", Missing, {})}

\* the tracked files of a working directory: the absent ones dropped
Tracked(a, b, m, r) ==
    LET all == [f \in Range(OrderedNames) |->
                   IF f = Name_a_c THEN a ELSE IF f = Name_b_c THEN b
                   ELSE IF f = Name_m_ui THEN m ELSE r]
    IN  [f \in {g \in Range(OrderedNames) : all[g].status # "absent"} |-> all[f]]

WorkDirs ==
    {Tracked(a, b, m, r) : a \in States_a, b \in States_b, m \in States_m,
                           r \in States_r}

Call(e, h, o) == [entry |-> e, hooktype |-> h, opts |-> o]

\* the commands on any working directory; the hooks on a dirty one
Init ==
    /\ InitRun
    /\ wdir \in WorkDirs
    /\ diff = diffui(wdir)
    /\ \E us \in BOOLEAN, cd \in BOOLEAN : config \in Configs(us, cd)
    /\ \/ /\ call \in {Call("check_cmd", "", CmdOpts(all, DefaultTabSize)) :
                         all \in BOOLEAN}
          /\ parents \in IF config.check_diffs THEN {0, 1, 2} ELSE {1}
       \/ /\ call = Call("fixup_cmd", "", CmdOpts(FALSE, DefaultTabSize))
          /\ parents = 1
       \/ /\ call \in {Call("check_hook", h, NoOpts) :
                         h \in {"pretxncommit", "pretxnchangegroup", "precommit"}}
                      \cup {Call("fixup_hook", "precommit", NoOpts)}
          /\ parents = 1
          /\ Name_b_c \in DOMAIN wdir /\ Name_m_ui \in DOMAIN wdir
          /\ Name_r_h \notin DOMAIN wdir

Next ==
    \/ check_cmd \/ fixup_cmd
    \/ check_hook_commit \/ check_hook_changegroup \/ check_hook_unsupported
    \/ fixup_hook
    \/ check_diff_begin \/ check_skip_merge \/ check_full_begin
    \/ check_diff_token \/ check_diff_end
    \/ check_full_file \/ check_full_line \/ check_full_endfile \/ check_full_end
    \/ check_return
    \/ fixup_begin \/ fixup_file \/ fixup_return

Spec == Init /\ [][Next]_vars

(***************************************************************************)
(* Line-level specification: one checked file a.c whose content ranges     *)
(* over every byte string up to MaxLen, every tab size up to MaxTab, both  *)
(* indent modes; 'hg checkfiles' (full-content) and 'hg fixwhitespace'.    *)
(***************************************************************************)
TextBytes == {SP, TAB, X, LF, CR}

InitText ==
    /\ InitRun
    /\ \E d \in Strings(TextBytes, MaxLen) :
          wdir = [f \in {Name_a_c} |-> FileState("modified", d, {})]
    /\ diff = diffui(wdir)
    /\ \E us \in BOOLEAN : config = DefaultConfig(us, FALSE)
    /\ \E ts \in 1..MaxTab, e \in {"check_cmd", "fixup_cmd"} :
          call = Call(e, "", CmdOpts(FALSE, ts))
    /\ parents = 1

NextText ==
    \/ check_cmd \/ fixup_cmd
    \/ check_full_begin
    \/ check_full_file \/ check_full_line \/ check_full_endfile \/ check_full_end
    \/ check_return
    \/ fixup_begin \/ fixup_file \/ fixup_return

SpecText == InitText /\ [][NextText]_vars

(***************************************************************************)
(* Diff specification: check() in diff mode over every token stream up to  *)
(* MaxToks tokens; a.c and b.c are relevant, m.ui is not.                  *)
(***************************************************************************)
TokSet ==
    {Tok(Header(Name_a_c), L_file_b), Tok(Header(Name_b_c), L_file_b),
     Tok(Header(Name_m_ui), L_file_b), Tok(HunkText, L_hunk),
     Tok(<<"+", X>>, L_inserted), Tok(<<"+", TAB, SP, X>>, L_inserted),
     Tok(<<SP>>, L_trailing), Tok(<<CR>>, L_trailing),
     Tok(<<LF>>, L_none)}

InitDiff ==
    /\ InitRun
    /\ wdir = [f \in {Name_a_c, Name_b_c, Name_m_ui} |->
                  FileState("modified", Clean, {})]
    /\ diff \in Strings(TokSet, MaxToks)
    /\ \E us \in BOOLEAN : config = DefaultConfig(us, TRUE)
    /\ call = Call("check_cmd", "", CmdOpts(FALSE, DefaultTabSize))
    /\ parents = 1

NextDiff ==
    \/ check_cmd
    \/ check_diff_begin
    \/ check_diff_token \/ check_diff_end
    \/ check_return

SpecDiff == InitDiff /\ [][NextDiff]_vars

(***************************************************************************)
(* Properties.                                                             *)
(***************************************************************************)
ViolationKinds ==
    {"all whitespace", "trailing whitespace", "tab character(s)",
     "space(s) before text"}

Viols(o) == {k \in DOMAIN o : o[k].kind \in ViolationKinds}

Summaries(o) == {k \in DOMAIN o : o[k].kind = "summary"}

FlagOf(kind) ==
    IF kind = "all whitespace" THEN "all_whitespace"
    ELSE IF kind = "trailing whitespace" THEN "whitespace_end"
    ELSE "whitespace_begin"

Constructed == pc \in {"check", "diff", "full", "lines", "finish", "done", "fixup", "fix"}

\* C1: in full-content mode every scanned line has at most one violation
\* recorded for it, a non-empty line of spaces and tabs has exactly one, of kind
\* all whitespace, and the issue count is the number of recorded violations
C1_OneViolationPerLine ==
    (call.entry = "check_cmd" /\ pc = "lines") =>
        /\ state.probcount = Cardinality(Viols(out))
        /\ \A n \in 1..num :
              LET ks == {k \in Viols(out) : out[k].where = n}
              IN  /\ Cardinality(ks) <= 1
                  /\ isspace(lines[n]) =>
                        /\ Cardinality(ks) = 1
                        /\ \A k \in ks : out[k].kind = "all whitespace"

(***************************************************************************)
(* The diff stream read on its own: the header before position j and the   *)
(* file it names.                                                          *)
(***************************************************************************)
LastHeader(j) ==
    LET hs == {i \in 1..(j - 1) : i <= Len(diff) /\ diff[i].label = L_file_b}
    IN  IF hs = {} THEN 0 ELSE CHOOSE i \in hs : \A q \in hs : q <= i

CurFileAt(j) ==
    IF LastHeader(j) = 0 THEN Null
    ELSE LET g == HeaderPath(diff[LastHeader(j)].chunk)
         IN  IF is_relevant(self, CtxData(wdir), g) THEN g ELSE Null

SectionFlags(j) ==
    {FlagOf(out[i].kind) : i \in {k \in Viols(out) :
                                    LastHeader(j) < out[k].at /\ out[k].at < j}}

\* C2: in diff mode every recorded violation names the relevant file of the most
\* recent file header, none is recorded while there is no current file, every
\* file summary holds exactly the kinds recorded since that file's header, and
\* the accumulator is empty right after a file header is processed
C2_Attribution ==
    pc \in {"diff", "finish", "done"} =>
        /\ \A k \in DOMAIN out :
              /\ out[k].kind \in ViolationKinds =>
                    out[k].file # Null /\ out[k].file = CurFileAt(out[k].at)
              /\ out[k].kind = "summary" =>
                    /\ out[k].file = CurFileAt(out[k].at)
                    /\ out[k].flags = SectionFlags(out[k].at)
              /\ out[k].kind = "ok" =>
                    /\ out[k].file = CurFileAt(out[k].at)
                    /\ SectionFlags(out[k].at) = {}
        /\ (pc = "diff" /\ pos >= 1 /\ diff[pos].label = L_file_b) => ~HasFlags(state)
        /\ pc = "diff" => Flags(state) = SectionFlags(pos + 1)

\* a violation in a.c's hunk went into a.c's summary and b.c was reported ok
C2_Witness ==
    /\ pc = "done"
    /\ \E i, j, k \in DOMAIN out :
          /\ i < j /\ j < k
          /\ out[i].kind = "trailing whitespace" /\ out[i].file = Name_a_c
          /\ out[j].kind = "summary" /\ out[j].file = Name_a_c
          /\ out[k].kind = "ok" /\ out[k].file = Name_b_c

MarkerRecorded(j) ==
    Cardinality({k \in DOMAIN out : out[k].kind = "trailing whitespace"
                                    /\ out[k].at = j})

\* C3 as claimed: with a current file set, a trailing-whitespace marker records
\* one violation exactly when the token before it is labelled inserted,
\* whatever the marker's text
C3_AnyMarkerText ==
    pc \in {"diff", "finish", "done"} =>
        \A j \in 1..pos :
            (diff[j].label = L_trailing /\ CurFileAt(j) # Null) =>
                MarkerRecorded(j) =
                    IF j > 1 /\ diff[j - 1].label = L_inserted THEN 1 ELSE 0

\* C3 as amended: ... exactly when the token before it is labelled inserted and
\* the marker's text is not a lone carriage return
C3_MarkerAfterInserted ==
    pc \in {"diff", "finish", "done"} =>
        /\ state.probcount = Cardinality(Viols(out))
        /\ \A j \in 1..pos :
              (diff[j].label = L_trailing /\ CurFileAt(j) # Null) =>
                  MarkerRecorded(j) =
                      IF j > 1 /\ diff[j - 1].label = L_inserted
                         /\ diff[j].chunk # <<CR>>
                      THEN 1 ELSE 0

\* one marker after an inserted line was recorded, a carriage-return marker
\* after an inserted line and a marker after another label were not
C3_Witness ==
    /\ pc = "done"
    /\ \E j \in 2..pos :
          /\ diff[j].label = L_trailing /\ diff[j - 1].label = L_inserted
          /\ CurFileAt(j) # Null /\ MarkerRecorded(j) = 1
    /\ \E j \in 2..pos :
          /\ diff[j].label = L_trailing /\ diff[j - 1].label # L_inserted
          /\ CurFileAt(j) # Null /\ MarkerRecorded(j) = 0

\* C4: in diff mode a change without exactly one parent is not scanned (no
\* token consumed, nothing recorded, result 'no issues'), and a change with
\* exactly one parent has its whole diff consumed
C4_MergeSkipped ==
    (call.entry = "check_cmd" /\ pc \in {"finish", "done"} /\ self.check_diffs) =>
        IF parents = 1
        THEN pos = Len(diff)
        ELSE /\ pos = 0
             /\ Viols(out) = {} /\ Summaries(out) = {}
             /\ state.probcount = 0 /\ state.filecount = 0
             /\ pc = "done" => result = "False"

\* a merge (two parents) whose diff holds a trailing-whitespace insertion in a
\* relevant file returned 'no issues'
C4_Witness ==
    /\ call.entry = "check_cmd" /\ pc = "done" /\ self.check_diffs
    /\ parents = 2
    /\ \E j \in 2..Len(diff) :
          /\ diff[j].label = L_trailing /\ diff[j - 1].label = L_inserted
          /\ is_relevant(self, CtxData(wdir), Name_a_c)
          /\ LastHeader(j) # 0 /\ diff[LastHeader(j)].chunk = Header(Name_a_c)
    /\ result = "False"

\* C5: the content fixup leaves behind is a fixed point of fixup, in the same
\* mode and with the same tab size
C5_Idempotent ==
    (call.entry = "fixup_cmd" /\ pc = "done") =>
        \A f \in DOMAIN wdir : fixup_data(self, wdir[f].data) = wdir[f].data

\* a file was rewritten and what was written still has a line fixup acts on
C5_Witness ==
    /\ call.entry = "fixup_cmd" /\ pc = "done"
    /\ \E k \in DOMAIN out : out[k].kind = "fixing"
    /\ NeedsFix(self, splitlines(wdir[Name_a_c].data))
    /\ Len(splitlines(wdir[Name_a_c].data)) >= 2

EndsWithTerminator(d) == Len(d) > 0 /\ d[Len(d)] \in {LF, CR}

\* C6: a rewrite by fixup keeps the presence of a final line terminator
C6_TerminatorPreserved ==
    [][\A f \in DOMAIN wdir :
          (pc = "fix" /\ wdir'[f].data # wdir[f].data) =>
              (EndsWithTerminator(wdir'[f].data) <=> EndsWithTerminator(wdir[f].data))]_vars

(***************************************************************************)
(* The relevance gates, spelled out.                                       *)
(***************************************************************************)
OtherGates(f) ==
    /\ \A i \in DOMAIN self.ignored_files : self.ignored_files[i] # f
    /\ \A i \in DOMAIN self.ignored_exts : ~endswith(f, self.ignored_exts[i])
    /\ f \in DOMAIN wdir /\ wdir[f].data # Missing
    /\ \A i \in DOMAIN wdir[f].data : wdir[f].data[i] # NUL

\* the checked_exts gate as specified: the name ends with an entry of
\* checked_exts, and an empty checked_exts passes every name
Gates(f) ==
    /\ OtherGates(f)
    /\ \/ self.checked_exts = << >>
       \/ \E i \in DOMAIN self.checked_exts : endswith(f, self.checked_exts[i])

\* C7: is_relevant accepts exactly the paths that are not ignored by path or
\* suffix, match checked_exts or find it empty, can be fetched and hold no
\* NUL: the files check and fixup work on are those that pass the gates, and
\* nothing is recorded against or written to any other path
C7_EmptyAcceptsAll ==
    Constructed =>
        /\ pc \in {"full", "lines", "fix"} =>
              todo = SelectSeq(self.files, LAMBDA f : Gates(f))
        /\ (pc = "diff" /\ pos >= 1 /\ diff[pos].label = L_file_b) =>
              file = IF Gates(HeaderPath(diff[pos].chunk))
                     THEN HeaderPath(diff[pos].chunk) ELSE Null
        /\ \A k \in DOMAIN out :
              out[k].kind \in ViolationKinds \cup {"summary", "fixing"} =>
                  Gates(out[k].file)

(***************************************************************************)
(* check() as one function of the object and the working directory.        *)
(***************************************************************************)
RECURSIVE ScanLines(_, _, _, _)
ScanLines(cf, st, ls, i) ==
    IF i > Len(ls) THEN st
    ELSE ScanLines(cf, scan_line(cf, st, ls[i]), ls, i + 1)

RECURSIVE ScanFiles(_, _, _, _)
ScanFiles(cf, w, st, fs) ==
    IF Len(fs) = 0 THEN st
    ELSE ScanFiles(cf, w,
                   endfile(ScanLines(cf, st, splitlines(w[fs[1]].data), 1), fs[1]),
                   Tail(fs))

FullCheck(cf, w) ==
    CheckResult(ScanFiles(cf, w, NewState, RelevantFiles(cf, CtxData(w), cf.files)))

RECURSIVE DiffFold(_, _, _, _, _)
DiffFold(cf, w, r, toks, i) ==
    IF i > Len(toks) THEN endfile(r.state, r.file)
    ELSE DiffFold(cf, w,
                  diff_step(cf, CtxData(w), r.state, r.file, r.hunk, r.lastlabel,
                            toks[i], i),
                  toks, i + 1)

DiffCheck(cf, w, toks) ==
    CheckResult(DiffFold(cf, w, [state |-> NewState, file |-> Null, hunk |-> Null,
                                 lastlabel |-> NoLabel], toks, 1))

\* the object the hook is meant to check with: the changeset's files, the
\* configured tab size
HookObject ==
    [raised |-> "", files |-> CtxFiles(wdir),
     checked_exts |-> config.checked_exts, ignored_exts |-> config.ignored_exts,
     ignored_files |-> config.ignored_files, check_diffs |-> config.check_diffs,
     tab_size |-> config.tab_size, use_spaces |-> config.use_spaces]

\* C8: check_hook, as pretxncommit or as pretxnchangegroup (here a group of one
\* changeset), returns true exactly when checking the changeset finds a violation
C8_HookReturnsCheck ==
    (call.entry = "check_hook" /\ pc \in {"done", "raised"}
     /\ call.hooktype \in {"pretxncommit", "pretxnchangegroup"}) =>
        result = IF config.check_diffs
                 THEN DiffCheck(HookObject, wdir, diff)
                 ELSE FullCheck(HookObject, wdir)

\* C9: 'hg checkfiles' returns what the full-content check of the working
\* directory returns, whatever check_diffs is
C9_CommandIgnoresCheckDiffs ==
    (call.entry = "check_cmd" /\ pc = "done") => result = FullCheck(self, wdir)

=============================================================================
